---- MODULE Spec2Model ----
(***************************************************************************)
(* A model of the CHD minimal perfect hash table of package mph: the       *)
(* FNV-1a hasher, the Indexer (lookup and serialization), the Table (CHD)  *)
(* with Get, Len, Iterate, Write and Mmap, the Iterator, and the Builder.  *)
(*                                                                         *)
(* A uint64 is a tuple of 8 bytes, least significant first: the order in   *)
(* which binary.LittleEndian writes it. All 64-bit arithmetic is done on   *)
(* these limbs, modulo 2^64.                                               *)
(***************************************************************************)
EXTENDS Integers, Sequences, FiniteSets, TLC

\* ------------------------------------------------------------------------
\* Bounds of the model.

\* The most pairs a run adds to the builder.
MaxKeys == 3
\* The most fresh seeds the builder tries for one bucket before it gives up.
MaxTries == 2
\* A length of r that no longer fits the 16-bit selector.
LargeRLen == 65536

\* ------------------------------------------------------------------------
\* 64-bit unsigned arithmetic on little-endian byte limbs.

RECURSIVE XorBits(_, _, _)
\* p XOR q on the low `bits` bits.
XorBits(p, q, bits) ==
  IF bits = 0 THEN 0
  ELSE ((p + q) % 2) + 2 * XorBits(p \div 2, q \div 2, bits - 1)

\* The XOR of two 4-bit values, tabulated.
XorNibble == [p \in 0..15 |-> [q \in 0..15 |-> XorBits(p, q, 4)]]

\* p ^ q on bytes.
XorByte(p, q) ==
  XorNibble[p % 16][q % 16] + 16 * XorNibble[p \div 16][q \div 16]

\* x ^ y on uint64.
U64Xor(x, y) ==
  <<XorByte(x[1], y[1]), XorByte(x[2], y[2]), XorByte(x[3], y[3]),
    XorByte(x[4], y[4]), XorByte(x[5], y[5]), XorByte(x[6], y[6]),
    XorByte(x[7], y[7]), XorByte(x[8], y[8])>>

\* uint64(v) of a natural number below 2^31.
U64(v) ==
  <<v % 256, (v \div 256) % 256, (v \div 65536) % 256,
    (v \div 16777216) % 256, 0, 0, 0, 0>>

\* Column k of the product x * y: x[1]*y[k] + x[2]*y[k-1] + ... + x[k]*y[1].
Column(x, y, k) ==
  LET t(i) == IF i <= k THEN x[i] * y[k - i + 1] ELSE 0
  IN  t(1) + t(2) + t(3) + t(4) + t(5) + t(6) + t(7) + t(8)

\* x * y on uint64: the product modulo 2^64, column by column with carries.
U64Mul(x, y) ==
  LET s1 == Column(x, y, 1)
      s2 == (s1 \div 256) + Column(x, y, 2)
      s3 == (s2 \div 256) + Column(x, y, 3)
      s4 == (s3 \div 256) + Column(x, y, 4)
      s5 == (s4 \div 256) + Column(x, y, 5)
      s6 == (s5 \div 256) + Column(x, y, 6)
      s7 == (s6 \div 256) + Column(x, y, 7)
      s8 == (s7 \div 256) + Column(x, y, 8)
  IN  <<s1 % 256, s2 % 256, s3 % 256, s4 % 256,
        s5 % 256, s6 % 256, s7 % 256, s8 % 256>>

\* x % d on uint64, for 0 < d < 2^23: from the most significant byte down.
U64Mod(x, d) ==
  LET a8 == x[8] % d
      a7 == (a8 * 256 + x[7]) % d
      a6 == (a7 * 256 + x[6]) % d
      a5 == (a6 * 256 + x[5]) % d
      a4 == (a5 * 256 + x[4]) % d
      a3 == (a4 * 256 + x[3]) % d
      a2 == (a3 * 256 + x[2]) % d
  IN  (a2 * 256 + x[1]) % d

\* 14695981039346656037 = 0xcbf29ce484222325, the FNV-1a offset basis.
FnvOffset == <<37, 35, 34, 132, 228, 156, 242, 203>>
\* 1099511628211 = 0x00000100000001b3, the FNV prime.
FnvPrime == <<179, 1, 0, 0, 0, 1, 0, 0>>

RECURSIVE hasherFrom(_, _, _)
hasherFrom(hash, data, i) ==
  IF i > Len(data) THEN hash
  ELSE hasherFrom(U64Mul(U64Xor(hash, U64(data[i])), FnvPrime), data, i + 1)

\* ------------------------------------------------------------------------
\* The inputs of the model.

\* The byte strings used as keys: "", "a", "b", "ab".
Keys == {<<>>, <<97>>, <<98>>, <<97, 98>>}
\* The byte strings used as values: "" and "1".
Values == {<<>>, <<49>>}
\* The values rand.Uint64() may return: 1, 2 and 0x0123456789abcdef.
Seeds == {U64(1), U64(2), <<239, 205, 171, 137, 103, 69, 35, 1>>}

\* FNV-1a of every key of the model, computed once.
FnvTable == [k \in Keys |-> hasherFrom(FnvOffset, k, 1)] @@ <<>>

\* func hasher(data []byte) uint64
hasher(data) ==
  IF data \in Keys THEN FnvTable[data] ELSE hasherFrom(FnvOffset, data, 1)

\* A nil slice: no byte string at all (every byte is in 0..255).
Nil == <<-1>>
\* The result of a call that ended in a run-time panic.
PanicBytes == <<-2>>
PanicSlot == -1

\* ^uint16(0): the selector of a bucket that holds no key.
Sentinel == 65535
\* The number of values of a uint16.
Uint16Range == 65536

\* ------------------------------------------------------------------------
\* Indexer.

\* uint16(len(c.r)): the conversion keeps the low 16 bits.
Uint16OfLen(r) == Len(r) % Uint16Range

\* A faulty variant of Indexer_Get, one that leaves r[0] out of the hash.
Indexer_Get_NoR0(ix, key, numKeys) ==
  IF Len(ix.r) = 0 \/ Len(ix.indices) = 0 THEN PanicSlot
  ELSE LET h  == hasher(key)
           ri == ix.indices[U64Mod(h, Len(ix.indices)) + 1]
       IN  IF ri >= Uint16OfLen(ix.r) THEN 0
           ELSE IF numKeys = 0 THEN PanicSlot
           ELSE U64Mod(U64Xor(h, ix.r[ri + 1]), numKeys)

\* func (c *Indexer) Get(key []byte, numKeys int) uint64
\* The slot of key, or PanicSlot where the Go code panics: c.r[0] of an
\* empty r, h % 0 with no indices, (h ^ r) % 0 with numKeys = 0.
Indexer_Get(ix, key, numKeys) ==
  IF Len(ix.r) = 0 THEN PanicSlot
  ELSE LET r0 == ix.r[1]
           h  == U64Xor(hasher(key), r0)
       IN  IF Len(ix.indices) = 0 THEN PanicSlot
           ELSE LET i  == U64Mod(h, Len(ix.indices))
                    ri == ix.indices[i + 1]
                IN  IF ri >= Uint16OfLen(ix.r) THEN 0
                    ELSE LET r == ix.r[ri + 1]
                         IN  IF numKeys = 0 THEN PanicSlot
                             ELSE U64Mod(U64Xor(h, r), numKeys)

\* binary.LittleEndian encodings of a uint32 and of a uint16.
U32LE(v) == <<v % 256, (v \div 256) % 256, (v \div 65536) % 256,
              (v \div 16777216) % 256>>
U16LE(v) == <<v % 256, (v \div 256) % 256>>

RECURSIVE Flatten(_)
\* The concatenation of a sequence of byte strings.
Flatten(ss) == IF ss = <<>> THEN <<>> ELSE Head(ss) \o Flatten(Tail(ss))

\* func (c *Indexer) Write(w io.Writer) error: the bytes written.
Indexer_Write(ix) ==
  U32LE(Len(ix.r)) \o Flatten(ix.r)
    \o U32LE(Len(ix.indices))
    \o Flatten([i \in 1..Len(ix.indices) |-> U16LE(ix.indices[i])])

\* ------------------------------------------------------------------------
\* sliceReader: a cursor over a byte slice. A read past the end of the slice
\* panics (the reader's methods return no error); ok = FALSE from then on.

NewSliceReader(buf) == [b |-> buf, pos |-> 0, ok |-> TRUE]

sliceReader_Read(bi, size) ==
  IF bi.ok /\ bi.pos + size <= Len(bi.b)
  THEN [bi |-> [bi EXCEPT !.pos = @ + size],
        v  |-> SubSeq(bi.b, bi.pos + 1, bi.pos + size)]
  ELSE [bi |-> [bi EXCEPT !.ok = FALSE], v |-> <<>>]

sliceReader_ReadInt(bi) ==
  LET x == sliceReader_Read(bi, 4)
  IN  [bi |-> x.bi,
       v  |-> IF x.bi.ok
              THEN x.v[1] + 256 * x.v[2] + 65536 * x.v[3] + 16777216 * x.v[4]
              ELSE 0]

sliceReader_ReadUint64Array(bi, cnt) ==
  LET x == sliceReader_Read(bi, cnt * 8)
  IN  [bi |-> x.bi,
       v  |-> IF x.bi.ok
              THEN [i \in 1..cnt |-> SubSeq(x.v, 8 * (i - 1) + 1, 8 * i)]
              ELSE <<>>]

sliceReader_ReadUint16Array(bi, cnt) ==
  LET x == sliceReader_Read(bi, cnt * 2)
  IN  [bi |-> x.bi,
       v  |-> IF x.bi.ok
              THEN [i \in 1..cnt |-> x.v[2 * i - 1] + 256 * x.v[2 * i]]
              ELSE <<>>]

\* func mmapIndexer(b []byte, bi *sliceReader) (*Indexer, error)
mmapIndexer(bi) ==
  LET rl  == sliceReader_ReadInt(bi)
      r   == sliceReader_ReadUint64Array(rl.bi, rl.v)
      il  == sliceReader_ReadInt(r.bi)
      ind == sliceReader_ReadUint16Array(il.bi, il.v)
  IN  [bi |-> ind.bi, v |-> [r |-> r.v, indices |-> ind.v]]

EmptyIndexer == [r |-> <<>>, indices |-> <<>>]

\* func MmapIndexer(b []byte) (*Indexer, error); ReadIndexer reads the whole
\* stream and calls it. The error returned is always nil.
MmapIndexer(buf) ==
  LET x == mmapIndexer(NewSliceReader(buf))
  IN  IF x.bi.ok THEN [outcome |-> "ok", ix |-> x.v]
      ELSE [outcome |-> "panic", ix |-> EmptyIndexer]

\* ------------------------------------------------------------------------
\* CHD, the table.

EmptyCHD == [Indexer |-> EmptyIndexer, keys |-> <<>>, values |-> <<>>]

\* bytes.Compare(p, q) == 0: a nil slice equals an empty one.
BytesEqual(p, q) ==
  (IF p = Nil THEN <<>> ELSE p) = (IF q = Nil THEN <<>> ELSE q)

\* A faulty variant of CHD_GetAt, one that trusts the slot without comparing
\* the key.
CHD_GetAt_NoCompare(t, key, ti) ==
  IF ti = PanicSlot \/ ti >= Len(t.keys) THEN PanicBytes
  ELSE t.values[ti + 1]

\* func (c *CHD) Get, after ti := c.Indexer.Get(key, len(c.keys)):
\* c.keys[ti] panics when ti is out of range.
CHD_GetAt(t, key, ti) ==
  IF ti = PanicSlot \/ ti >= Len(t.keys) THEN PanicBytes
  ELSE IF ~BytesEqual(t.keys[ti + 1], key) THEN Nil
  ELSE t.values[ti + 1]

\* func (c *CHD) Get(key []byte) []byte
CHD_Get(t, key) ==
  CHD_GetAt(t, key, Indexer_Get(t.Indexer, key, Len(t.keys)))

\* func (c *CHD) Len() int
CHD_Len(t) == Len(t.keys)

\* A faulty variant of CHD_Write, one that writes a value's length before
\* its key's.
CHD_Write_Swapped(t) ==
  U32LE(Len(t.Indexer.r)) \o Flatten(t.Indexer.r)
    \o U32LE(Len(t.Indexer.indices))
    \o Flatten([i \in 1..Len(t.Indexer.indices) |-> U16LE(t.Indexer.indices[i])])
    \o U32LE(Len(t.keys))
    \o Flatten([i \in 1..Len(t.keys) |->
                 U32LE(Len(t.values[i])) \o U32LE(Len(t.keys[i]))
                   \o t.keys[i] \o t.values[i]])

\* func (c *CHD) Write(w io.Writer) error: the bytes written.
CHD_Write(t) ==
  U32LE(Len(t.Indexer.r)) \o Flatten(t.Indexer.r)
    \o U32LE(Len(t.Indexer.indices))
    \o Flatten([i \in 1..Len(t.Indexer.indices) |-> U16LE(t.Indexer.indices[i])])
    \o U32LE(Len(t.keys))
    \o Flatten([i \in 1..Len(t.keys) |->
                 U32LE(Len(t.keys[i])) \o U32LE(Len(t.values[i]))
                   \o t.keys[i] \o t.values[i]])

RECURSIVE MmapEntries(_, _, _, _)
\* The loop of Mmap over the el entries: kl, vl, the key, the value.
MmapEntries(bi, left, keys, values) ==
  IF left = 0 \/ ~bi.ok THEN [bi |-> bi, keys |-> keys, values |-> values]
  ELSE LET kl == sliceReader_ReadInt(bi)
           vl == sliceReader_ReadInt(kl.bi)
           k  == sliceReader_Read(vl.bi, kl.v)
           v  == sliceReader_Read(k.bi, vl.v)
       IN  MmapEntries(v.bi, left - 1, Append(keys, k.v), Append(values, v.v))

\* func Mmap(b []byte) (*CHD, error); Read reads the whole stream and calls
\* it. The error returned is always nil.
Mmap(buf) ==
  LET idx == mmapIndexer(NewSliceReader(buf))
      el  == sliceReader_ReadInt(idx.bi)
      es  == MmapEntries(el.bi, el.v, <<>>, <<>>)
  IN  IF es.bi.ok
      THEN [outcome |-> "ok",
            c |-> [Indexer |-> idx.v, keys |-> es.keys, values |-> es.values]]
      ELSE [outcome |-> "panic", c |-> EmptyCHD]

\* ------------------------------------------------------------------------
\* Iterator.

\* func (c *CHD) Iterate() *Iterator: nil for an empty table, else i = 0.
CHD_Iterate(t) ==
  IF Len(t.keys) = 0 THEN [ptr |-> "nil", i |-> 0]
  ELSE [ptr |-> "iter", i |-> 0]

\* func (c *Iterator) Get() (key []byte, value []byte)
Iterator_Get(t, i) ==
  IF i >= Len(t.keys) THEN <<PanicBytes, PanicBytes>>
  ELSE <<t.keys[i + 1], t.values[i + 1]>>

\* A faulty variant of Iterator_Next, one that ends one slot late.
Iterator_Next_Late(t, i) ==
  IF i + 1 > Len(t.keys) THEN [ptr |-> "nil", i |-> i + 1]
  ELSE [ptr |-> "iter", i |-> i + 1]

\* func (c *Iterator) Next() *Iterator: c.i++, nil once c.i >= len(keys).
Iterator_Next(t, i) ==
  IF i + 1 >= Len(t.keys) THEN [ptr |-> "nil", i |-> i + 1]
  ELSE [ptr |-> "iter", i |-> i + 1]

\* ------------------------------------------------------------------------
\* The state.

\* The goroutines that read a table concurrently.
Readers == {"r1", "r2"}

VARIABLES
  pc,     \* "adding", "building", "built", "failed"; "lookup" for a bare Indexer
  b,      \* the CHDBuilder: the keys and values added so far
  c,      \* the CHD that Build fills in and returns
  tries,  \* the fresh seeds Build has tried for the bucket it is placing
  w,      \* the bytes CHD.Write wrote, Nil before the call
  wi,     \* the bytes Indexer.Write wrote, Nil before the call
  n,      \* what Mmap returned for the first n.cut bytes of w
  ni,     \* what MmapIndexer returned for the first ni.cut bytes of wi
  ret,    \* the last Get, Len or Indexer.Get call and what it returned
  it,     \* the Iterator of a client loop over c
  got,    \* the pairs that loop has read with Iterator.Get
  rd      \* each reader's Get call in flight

vars == <<pc, b, c, tries, w, wi, n, ni, ret, it, got, rd>>

NoRet == [op |-> "none", on |-> "-", key |-> <<>>, val |-> Nil, num |-> 0,
          slot |-> 0]
NoIter == [ptr |-> "none", i |-> 0, fetched |-> FALSE]
Idle == [st |-> "idle", key |-> <<>>, ti |-> 0, res |-> Nil]

\* func Builder() *CHDBuilder
Builder == [keys |-> <<>>, values |-> <<>>]

Init ==
  /\ pc = "adding"
  /\ b = Builder
  /\ c = EmptyCHD
  /\ tries = 0
  /\ w = Nil
  /\ wi = Nil
  /\ n = [outcome |-> "none", c |-> EmptyCHD, cut |-> 0]
  /\ ni = [outcome |-> "none", ix |-> EmptyIndexer, cut |-> 0]
  /\ ret = NoRet
  /\ it = NoIter
  /\ got = <<>>
  /\ rd = [p \in Readers |-> Idle]

\* ------------------------------------------------------------------------
\* CHDBuilder.

\* func (b *CHDBuilder) Add(key []byte, value []byte)
Add(key, value) ==
  /\ pc = "adding"
  /\ Len(b.keys) < MaxKeys
  /\ b' = [keys |-> Append(b.keys, key), values |-> Append(b.values, value)]
  /\ UNCHANGED <<pc, c, tries, w, wi, n, ni, ret, it, got, rd>>

\* The bucket of a key: (hash(key) XOR r[0]) mod m.
chdHasher_HashIndexFromKey(r0, m, key) == U64Mod(U64Xor(hasher(key), r0), m)

\* The slot a seed r gives a key: the slot Indexer.Get computes for a bucket
\* whose selector names r.
chdHasher_Table(r0, r, size, key) ==
  U64Mod(U64Xor(U64Xor(hasher(key), r0), r), size)

HasDuplicates ==
  \E i, j \in 1..Len(b.keys) : i # j /\ b.keys[i] = b.keys[j]

\* The added pairs (by position) that fall in bucket bk.
Bucket(bk) ==
  {i \in 1..Len(b.keys) :
     chdHasher_HashIndexFromKey(c.Indexer.r[1], Len(c.Indexer.indices),
                                b.keys[i]) = bk}

\* The buckets still to place, and the most populated of them.
Pending ==
  {bk \in 0..(Len(c.Indexer.indices) - 1) :
     Bucket(bk) # {} /\ c.Indexer.indices[bk + 1] = Sentinel}
LargestPending ==
  {bk \in Pending :
     \A o \in Pending : Cardinality(Bucket(o)) <= Cardinality(Bucket(bk))}

SlotOf(r, i) ==
  chdHasher_Table(c.Indexer.r[1], r, Len(b.keys), b.keys[i])

\* tryHash: seed r sends the keys of bucket bk to free, pairwise distinct slots.
tryHashFits(bk, r) ==
  \A i \in Bucket(bk) :
    /\ c.keys[SlotOf(r, i) + 1] = Nil
    /\ \A j \in Bucket(bk) : i # j => SlotOf(r, i) # SlotOf(r, j)

\* tryHash on success: the selector of bk is ri, its pairs are in their slots.
tryHashPlace(t, bk, ri, r) ==
  LET at(s) == CHOOSE i \in Bucket(bk) : SlotOf(r, i) + 1 = s
      hit(s) == \E i \in Bucket(bk) : SlotOf(r, i) + 1 = s
  IN  [Indexer |-> [r |-> t.Indexer.r,
                    indices |-> [t.Indexer.indices EXCEPT ![bk + 1] = ri]],
       keys |-> [s \in 1..Len(t.keys) |->
                  IF hit(s) THEN b.keys[at(s)] ELSE t.keys[s]],
       values |-> [s \in 1..Len(t.values) |->
                  IF hit(s) THEN b.values[at(s)] ELSE t.values[s]]]

\* Build, its start: no pairs give the empty table, a duplicate key fails,
\* else m buckets, a primary seed r[0], every selector the sentinel.
Build_Begin ==
  /\ pc = "adding"
  /\ UNCHANGED <<b, tries, w, wi, n, ni, ret, it, got, rd>>
  /\ IF Len(b.keys) = 0 THEN pc' = "built" /\ c' = EmptyCHD
     ELSE IF HasDuplicates THEN pc' = "failed" /\ c' = c
     ELSE \E m \in 1..Len(b.keys), r0 \in Seeds :
            /\ pc' = "building"
            /\ c' = [Indexer |-> [r |-> <<r0>>,
                                  indices |-> [i \in 1..m |-> Sentinel]],
                     keys |-> [i \in 1..Len(b.keys) |-> Nil],
                     values |-> [i \in 1..Len(b.keys) |-> Nil]]

\* Build, one round of its search: the most populated bucket left takes the
\* first seed of r that fits; if none fits a fresh seed is drawn, appended to
\* r when it fits and counted as a failed try when not. Build returns the
\* table once every bucket is placed, an error after MaxTries failed tries.
Build_Step ==
  /\ pc = "building"
  /\ UNCHANGED <<b, w, wi, n, ni, ret, it, got, rd>>
  /\ \E bk \in LargestPending :
       LET r    == c.Indexer.r
           fits == {ri \in 1..Len(r) : tryHashFits(bk, r[ri])}
           last == Pending = {bk}
       IN  IF fits # {}
           THEN LET ri == CHOOSE x \in fits : \A y \in fits : x <= y
                IN  /\ c' = tryHashPlace(c, bk, ri - 1, r[ri])
                    /\ tries' = 0
                    /\ pc' = IF last THEN "built" ELSE "building"
           ELSE \E seed \in Seeds :
                  IF tryHashFits(bk, seed)
                  THEN /\ c' = tryHashPlace(
                                 [c EXCEPT !.Indexer.r = Append(r, seed)],
                                 bk, Len(r), seed)
                       /\ tries' = 0
                       /\ pc' = IF last THEN "built" ELSE "building"
                  ELSE /\ c' = c
                       /\ tries' = tries + 1
                       /\ pc' = IF tries + 1 >= MaxTries THEN "failed"
                                ELSE "building"

\* ------------------------------------------------------------------------
\* The calls on a built table.

\* m.Write(w)
Write ==
  /\ pc = "built"
  /\ w' = CHD_Write(c)
  /\ UNCHANGED <<pc, b, c, tries, wi, n, ni, ret, it, got, rd>>

\* m.Indexer.Write(w)
IndexerWrite ==
  /\ pc = "built"
  /\ wi' = Indexer_Write(c.Indexer)
  /\ UNCHANGED <<pc, b, c, tries, w, n, ni, ret, it, got, rd>>

\* Mmap (or Read) of the first cut bytes written by Write.
MmapCut(cut) ==
  /\ pc = "built"
  /\ w # Nil
  /\ cut \in 0..Len(w)
  /\ LET res == Mmap(SubSeq(w, 1, cut))
     IN  n' = [outcome |-> res.outcome, c |-> res.c, cut |-> cut]
  /\ UNCHANGED <<pc, b, c, tries, w, wi, ni, ret, it, got, rd>>

\* MmapIndexer (or ReadIndexer) of the first cut bytes written by Indexer.Write.
MmapIndexerCut(cut) ==
  /\ pc = "built"
  /\ wi # Nil
  /\ cut \in 0..Len(wi)
  /\ LET res == MmapIndexer(SubSeq(wi, 1, cut))
     IN  ni' = [outcome |-> res.outcome, ix |-> res.ix, cut |-> cut]
  /\ UNCHANGED <<pc, b, c, tries, w, wi, n, ret, it, got, rd>>

\* The table a call is made on: m, the built one, or n, the deserialized one.
TableOf(on) == IF on = "m" THEN c ELSE n.c

\* c.Get(key) on the built or on the deserialized table.
Get(on, key) ==
  /\ pc = "built"
  /\ on = "n" => n.outcome = "ok"
  /\ ret' = [op |-> "Get", on |-> on, key |-> key,
             val |-> CHD_Get(TableOf(on), key), num |-> 0, slot |-> 0]
  /\ UNCHANGED <<pc, b, c, tries, w, wi, n, ni, it, got, rd>>

\* c.Len()
LenCall(on) ==
  /\ pc = "built"
  /\ on = "n" => n.outcome = "ok"
  /\ ret' = [op |-> "Len", on |-> on, key |-> <<>>, val |-> Nil,
             num |-> CHD_Len(TableOf(on)), slot |-> 0]
  /\ UNCHANGED <<pc, b, c, tries, w, wi, n, ni, it, got, rd>>

\* it := c.Iterate()
Iterate ==
  /\ pc = "built"
  /\ it.ptr = "none"
  /\ it' = [ptr |-> CHD_Iterate(c).ptr, i |-> CHD_Iterate(c).i,
            fetched |-> FALSE]
  /\ UNCHANGED <<pc, b, c, tries, w, wi, n, ni, ret, got, rd>>

\* k, v := it.Get(), once per position
IterGet ==
  /\ pc = "built"
  /\ it.ptr = "iter"
  /\ ~it.fetched
  /\ got' = Append(got, Iterator_Get(c, it.i))
  /\ it' = [it EXCEPT !.fetched = TRUE]
  /\ UNCHANGED <<pc, b, c, tries, w, wi, n, ni, ret, rd>>

\* it = it.Next()
IterNext ==
  /\ pc = "built"
  /\ it.ptr = "iter"
  /\ it.fetched
  /\ it' = [ptr |-> Iterator_Next(c, it.i).ptr, i |-> Iterator_Next(c, it.i).i,
            fetched |-> FALSE]
  /\ UNCHANGED <<pc, b, c, tries, w, wi, n, ni, ret, got, rd>>

\* ------------------------------------------------------------------------
\* Readers: Table.Get in its two steps, the call of Indexer.Get and the
\* comparison of the stored key, so that other calls run between them.

\* ti := c.Indexer.Get(key, len(c.keys))
GetIndex(p, key) ==
  /\ pc = "built"
  /\ rd[p].st = "idle"
  /\ rd' = [rd EXCEPT ![p] =
              [st |-> "indexed", key |-> key,
               ti |-> Indexer_Get(c.Indexer, key, Len(c.keys)), res |-> Nil]]
  /\ UNCHANGED <<pc, b, c, tries, w, wi, n, ni, ret, it, got>>

\* A faulty variant of GetCompare, one that moves the entry it found to
\* slot 0.
GetCompare_MoveToFront(p) ==
  /\ pc = "built"
  /\ rd[p].st = "indexed"
  /\ rd' = [rd EXCEPT ![p] =
              [st |-> "done", key |-> rd[p].key, ti |-> rd[p].ti,
               res |-> CHD_GetAt(c, rd[p].key, rd[p].ti)]]
  /\ c' = IF rd[p].ti > 0 /\ rd[p].ti < Len(c.keys)
          THEN [c EXCEPT !.keys[1] = c.keys[rd[p].ti + 1],
                         !.keys[rd[p].ti + 1] = c.keys[1],
                         !.values[1] = c.values[rd[p].ti + 1],
                         !.values[rd[p].ti + 1] = c.values[1]]
          ELSE c
  /\ UNCHANGED <<pc, b, tries, w, wi, n, ni, ret, it, got>>

\* k := c.keys[ti]; the comparison; return nil or c.values[ti]
GetCompare(p) ==
  /\ pc = "built"
  /\ rd[p].st = "indexed"
  /\ rd' = [rd EXCEPT ![p] =
              [st |-> "done", key |-> rd[p].key, ti |-> rd[p].ti,
               res |-> CHD_GetAt(c, rd[p].key, rd[p].ti)]]
  /\ UNCHANGED <<pc, b, c, tries, w, wi, n, ni, ret, it, got>>

\* c.Indexer.Get(key, numKeys), called directly
IndexerGet(key, numKeys) ==
  /\ pc \in {"built", "lookup"}
  /\ ret' = [op |-> "IndexerGet", on |-> "m", key |-> key, val |-> Nil,
             num |-> numKeys, slot |-> Indexer_Get(c.Indexer, key, numKeys)]
  /\ UNCHANGED <<pc, b, c, tries, w, wi, n, ni, it, got, rd>>

\* An Indexer whose r is too long for its length to fit in 16 bits.
LargeR == [i \in 1..LargeRLen |-> <<1, 0, 0, 0, 0, 0, 0, 0>>]
LargeIndexer == [r |-> LargeR, indices |-> <<0, 1, Sentinel>>]

\* LargeIndexer.Get(key, numKeys): the Indexer is not held in the state.
IndexerGetLarge(key, numKeys) ==
  /\ pc = "lookup"
  /\ ret' = [op |-> "IndexerGetLarge", on |-> "-", key |-> key, val |-> Nil,
             num |-> numKeys, slot |-> Indexer_Get(LargeIndexer, key, numKeys)]
  /\ UNCHANGED <<pc, b, c, tries, w, wi, n, ni, it, got, rd>>

\* ------------------------------------------------------------------------
\* The specifications.

\* The keys in a fixed order, for the runs that add them in that order.
KeyOrder == <<<<>>, <<97>>, <<98>>, <<97, 98>>>>
KeyRank(k) == CHOOSE i \in 1..Len(KeyOrder) : KeyOrder[i] = k

\* Add with the keys in non-decreasing order (a key may repeat).
AddInOrder(k, v) ==
  /\ Len(b.keys) > 0 => KeyRank(b.keys[Len(b.keys)]) <= KeyRank(k)
  /\ Add(k, v)

\* Building from pairs added in any order, and lookups on the built table.
Next ==
  \/ \E k \in Keys, v \in Values : Add(k, v)
  \/ Build_Begin
  \/ Build_Step
  \/ \E k \in Keys : Get("m", k)
  \/ LenCall("m")

Spec == Init /\ [][Next]_vars

\* Building, Write, Mmap of all the bytes written, lookups on both tables.
NextSer ==
  \/ \E k \in Keys, v \in Values : AddInOrder(k, v)
  \/ Build_Begin
  \/ Build_Step
  \/ Write
  \/ MmapCut(Len(w))
  \/ \E on \in {"m", "n"}, k \in Keys : Get(on, k)
  \/ \E on \in {"m", "n"} : LenCall(on)

SpecSer == Init /\ [][NextSer]_vars

\* Building, both Writes, and one Mmap or MmapIndexer of any prefix of the
\* bytes written.
Undecoded == n.outcome = "none" /\ ni.outcome = "none"

NextDec ==
  \/ \E k \in Keys, v \in Values : AddInOrder(k, v)
  \/ Build_Begin
  \/ Build_Step
  \/ Write
  \/ IndexerWrite
  \/ \E cut \in 0..Len(w) : Undecoded /\ MmapCut(cut)
  \/ \E cut \in 0..Len(wi) : Undecoded /\ MmapIndexerCut(cut)

SpecDec == Init /\ [][NextDec]_vars

\* Building, and a client loop over the table's Iterator.
NextIter ==
  \/ \E k \in Keys, v \in Values : AddInOrder(k, v)
  \/ Build_Begin
  \/ Build_Step
  \/ Iterate
  \/ IterGet
  \/ IterNext

SpecIter == Init /\ [][NextIter]_vars

\* Building, then concurrent readers, Len, Indexer.Get, Iterate and Write.
NextConc ==
  \/ \E k \in Keys : AddInOrder(k, <<49>>)
  \/ Build_Begin
  \/ Build_Step
  \/ \E k \in Keys : GetIndex("r1", k)
  \/ GetIndex("r2", <<97>>)
  \/ \E p \in Readers : GetCompare(p)
  \/ LenCall("m")
  \/ IndexerGet(<<98>>, Len(c.keys))
  \/ Iterate
  \/ IterGet
  \/ IterNext
  \/ Write

SpecConc == Init /\ [][NextConc]_vars

\* Indexer.Get on Indexers as MmapIndexer returns them: r of up to 2 seeds
\* and up to 2 selectors, or r of LargeRLen seeds and 3 selectors.
RSamples ==
  {<<>>} \cup {<<x>> : x \in Seeds} \cup {<<x, y>> : x \in Seeds, y \in Seeds}
Selectors == {0, 1, Sentinel}
IndicesSamples ==
  {<<>>} \cup {<<x>> : x \in Selectors}
    \cup {<<x, y>> : x \in Selectors, y \in Selectors}
IndexerSamples ==
  {[r |-> r, indices |-> ind] : r \in RSamples, ind \in IndicesSamples}

InitIdx ==
  /\ pc = "lookup"
  /\ b = Builder
  /\ \E ix \in IndexerSamples :
       c = [Indexer |-> ix, keys |-> <<>>, values |-> <<>>]
  /\ tries = 0
  /\ w = Nil
  /\ wi = Nil
  /\ n = [outcome |-> "none", c |-> EmptyCHD, cut |-> 0]
  /\ ni = [outcome |-> "none", ix |-> EmptyIndexer, cut |-> 0]
  /\ ret = NoRet
  /\ it = NoIter
  /\ got = <<>>
  /\ rd = [p \in Readers |-> Idle]

NextIdx ==
  \/ \E k \in Keys, numKeys \in 0..MaxKeys : IndexerGet(k, numKeys)
  \/ \E k \in Keys, numKeys \in 0..MaxKeys : IndexerGetLarge(k, numKeys)

SpecIdx == InitIdx /\ [][NextIdx]_vars

\* ------------------------------------------------------------------------
\* Properties.

\* h := hasher(key) ^ c.r[0]; i := h % len(c.indices); ri := c.indices[i]
Selector(ix, key) ==
  ix.indices[U64Mod(U64Xor(hasher(key), ix.r[1]), Len(ix.indices)) + 1]

\* The keys added to the builder.
BuildSet == {b.keys[i] : i \in 1..Len(b.keys)}

\* C1: a table written by Write and read back by Mmap has the same r,
\* indices, keys and values as the original, and a Get on it returns what the
\* same Get returns on the original.
C1_RoundTrip ==
  (pc = "built" /\ n.outcome # "none") =>
    /\ n.outcome = "ok"
    /\ n.c.Indexer.r = c.Indexer.r
    /\ n.c.Indexer.indices = c.Indexer.indices
    /\ n.c.keys = c.keys
    /\ n.c.values = c.values
    /\ (ret.op = "Get" /\ ret.on = "n") => ret.val = CHD_Get(c, ret.key)

C1_Witness ==
  /\ pc = "built"
  /\ Len(c.keys) = MaxKeys
  /\ n.outcome = "ok"
  /\ ret.op = "Get"
  /\ ret.on = "n"
  /\ ret.key \in BuildSet
  /\ ret.val = <<49>>

\* C2: after a successful Build, Len returns the number of pairs added and
\* Get of an added key returns the value added with it.
C2_Lookup ==
  (pc = "built" /\ ret.on = "m") =>
    /\ ret.op = "Len" => ret.num = Len(b.keys)
    /\ ret.op = "Get" =>
         \A i \in 1..Len(b.keys) : b.keys[i] = ret.key => ret.val = b.values[i]

C2_Witness ==
  /\ pc = "built"
  /\ Len(b.keys) = MaxKeys
  /\ ret.op = "Get"
  /\ ret.on = "m"
  /\ \E i \in 1..Len(b.keys) :
       b.keys[i] = ret.key /\ b.values[i] = <<49>> /\ ret.val = <<49>>

\* C3: on a table built from n distinct keys, Indexer.Get maps the keys
\* added one-to-one onto the slots 0..n-1.
C3_Perfect ==
  (pc = "built" /\ Len(b.keys) >= 1) =>
    /\ {Indexer_Get(c.Indexer, k, Len(b.keys)) : k \in BuildSet}
         = 0..(Len(b.keys) - 1)
    /\ Cardinality(BuildSet) = Len(b.keys)

C3_Witness ==
  /\ pc = "built"
  /\ Len(b.keys) = MaxKeys
  /\ Len(c.Indexer.r) >= 2
  /\ Len(c.Indexer.indices) >= 2

\* C4: on a table of one key or more, built or read back, Get of a key that
\* was not added returns nil, also when the key's selector is the sentinel
\* and Indexer.Get falls back to slot 0.
C4_Absent ==
  (pc = "built" /\ ret.op = "Get" /\ Len(b.keys) >= 1
     /\ ret.key \notin BuildSet) => ret.val = Nil

C4_Witness ==
  /\ pc = "built"
  /\ ret.op = "Get"
  /\ ret.on = "n"
  /\ Len(b.keys) >= 2
  /\ ret.key \notin BuildSet
  /\ Selector(c.Indexer, ret.key) = Sentinel
  /\ ret.val = Nil

\* C5: Build of no pairs succeeds with a table of no keys, on which (and on
\* the table read back from its bytes) Get of any key returns nil without
\* failing, and the table read back equals it.
C5_EmptyTable ==
  (pc \in {"built", "failed"} /\ Len(b.keys) = 0) =>
    /\ pc = "built"
    /\ Len(c.keys) = 0
    /\ ret.op = "Get" => ret.val = Nil
    /\ n.outcome # "none" => (n.outcome = "ok" /\ n.c = c)

\* The empty table is built, written and read back, and a Get has run on it.
C5_Witness ==
  /\ pc = "built"
  /\ Len(b.keys) = 0
  /\ n.outcome = "ok"
  /\ n.c = c
  /\ ret.op = "Get"
  /\ ret.on = "n"
  /\ ret.val = PanicBytes

\* C6: Mmap (Read) and MmapIndexer (ReadIndexer) of a buffer that ends
\* before the bytes its length prefixes announce return a decode error, and
\* do not panic.
C6_DecodeError ==
  /\ (n.outcome # "none" /\ n.cut < Len(w)) => n.outcome = "error"
  /\ (ni.outcome # "none" /\ ni.cut < Len(wi)) => ni.outcome = "error"

\* Mmap of a table of two entries cut inside its second entry has panicked.
C6_Witness ==
  /\ pc = "built"
  /\ Len(c.keys) = 2
  /\ n.cut = Len(w) - 1
  /\ n.outcome = "panic"

\* C7: Indexer.Get returns a slot for every Indexer, key and numKeys, an
\* empty r, empty indices and numKeys = 0 included: it never fails.
C7_Total ==
  ret.op \in {"IndexerGet", "IndexerGetLarge"} => ret.slot # PanicSlot

\* Indexer.Get has failed on an Indexer with seeds and selectors, for
\* numKeys = 0.
C7_Witness ==
  /\ ret.op = "IndexerGet"
  /\ Len(c.Indexer.r) = 2
  /\ Len(c.Indexer.indices) = 2
  /\ Selector(c.Indexer, ret.key) < Len(c.Indexer.r)
  /\ ret.num = 0
  /\ ret.slot = PanicSlot

\* C8: on a table of n >= 1 entries the iterator's Gets yield
\* (keys[i], values[i]) for i = 0..n-1 in that order, each once, and Next
\* returns nil exactly after slot n-1; on a table of no entries Iterate
\* returns nil.
C8_Iteration ==
  pc = "built" =>
    /\ Len(got) <= Len(c.keys)
    /\ \A j \in 1..Len(got) : got[j] = <<c.keys[j], c.values[j]>>
    /\ it.ptr = "iter" =>
         /\ it.i < Len(c.keys)
         /\ Len(got) = it.i + (IF it.fetched THEN 1 ELSE 0)
    /\ it.ptr = "nil" => Len(got) = Len(c.keys)
    /\ (it.ptr # "none" /\ Len(c.keys) = 0) => it.ptr = "nil"

C8_Witness ==
  /\ pc = "built"
  /\ it.ptr = "nil"
  /\ Len(c.keys) = MaxKeys
  /\ Len(got) = MaxKeys
  /\ got[MaxKeys] = <<c.keys[MaxKeys], c.values[MaxKeys]>>

\* The Indexer of the last call of Indexer.Get.
Called == IF ret.op = "IndexerGetLarge" THEN LargeIndexer ELSE c.Indexer

\* C9: with ri the selector of the key, Indexer.Get returns 0 when
\* ri >= len(r), the true length of r, and (h XOR r[ri]) mod numKeys
\* otherwise, for r of every length, 65536 and more included.
C9_Fallback ==
  (ret.op \in {"IndexerGet", "IndexerGetLarge"} /\ Len(Called.r) > 0
     /\ Len(Called.indices) > 0 /\ ret.num > 0) =>
    LET ri == Selector(Called, ret.key)
        h  == U64Xor(hasher(ret.key), Called.r[1])
    IN  IF ri >= Len(Called.r) THEN ret.slot = 0
        ELSE ret.slot = U64Mod(U64Xor(h, Called.r[ri + 1]), ret.num)

\* Indexer.Get has returned 0 for an in-range selector of an r of LargeRLen
\* seeds, where the seed selected gives another slot.
C9_Witness ==
  /\ ret.op = "IndexerGetLarge"
  /\ Len(LargeIndexer.r) = LargeRLen
  /\ ret.num > 0
  /\ Selector(LargeIndexer, ret.key) < Len(LargeIndexer.r)
  /\ ret.slot = 0
  /\ U64Mod(U64Xor(U64Xor(hasher(ret.key), LargeIndexer.r[1]),
                    LargeIndexer.r[Selector(LargeIndexer, ret.key) + 1]),
             ret.num) # 0

\* C10: on a built table, no step of concurrent Get, Indexer.Get, Len,
\* Iterate and Write calls changes r, indices, keys or values, and a Get
\* that finishes returns what it returns when run alone.
C10_ReadOnly ==
  [][pc = "built" =>
       /\ c' = c
       /\ \A p \in Readers :
            rd'[p].st = "done" => rd'[p].res = CHD_Get(c', rd'[p].key)]_vars

\* One reader has finished a Get of an added key while the other is between
\* the two steps of a Get of another key, a Write has run and an iterator is
\* open.
C10_Witness ==
  /\ pc = "built"
  /\ Len(c.keys) >= 2
  /\ rd["r1"].st = "done"
  /\ rd["r1"].res = <<49>>
  /\ rd["r2"].st = "indexed"
  /\ rd["r1"].key # rd["r2"].key
  /\ w # Nil
  /\ it.ptr = "iter"
====
